---------------------------- MODULE Spec2Model ----------------------------
(***************************************************************************)
(* Model of the AFL mutation functions: the mutation operators, the        *)
(* interesting-value catalog and the two Havoc drivers of the repository   *)
(* (the class CAFLMutationFunctions of AFLMutationFunctions.cpp and the    *)
(* function templates of include/AFLMutationFunctions.hh).                 *)
(*                                                                         *)
(* A buffer is a function from the byte indices 0..sizeMax-1 to 0..255.    *)
(* An integer of width w bytes is the sequence of its w bytes as they lie  *)
(* in memory on the little-endian hosts the code is built for (index 1 is  *)
(* the least significant byte): 64-bit values do not fit TLC's integers.   *)
(***************************************************************************)
EXTENDS Integers, Sequences, FiniteSets, TLC

(***************************************************************************)
(* Bounds of the model.                                                    *)
(***************************************************************************)
\* Largest buffer capacity of a Havoc run.
MaxCapacity == 2
\* Largest iteration count a Havoc run draws (the code draws 1..31).
MaxHavocIterations == 2
\* Largest buffer capacity an operator is applied to on its own.
MaxOpCapacity == 3
\* Largest number of operators of a set given to FilterMutations.
MaxMutations == 2
\* Largest size and capacity given to FilterMutations.
MaxFilterSize == 3
\* Capacity of the buffer of bytes that all differ.
DistinctCapacity == 5

(***************************************************************************)
(* The random number generator (Gen& generator, m_randomengine) is the     *)
(* family of the values its draws may give: a record of                    *)
(*   bits        the draws of the range [0, 7]                             *)
(*   bytes1      the draws of the range [1, 255]                           *)
(*   bytes0      the draws of the range [0, 255]                           *)
(*   uint64      the draws of uniform_int_distribution< uint64_t >         *)
(*   arithmetic  the draws of the range [1, ARITHMETIC_MAX]                *)
(*   every       whether a draw of an index into a table gives every index *)
(*               of the table or only the last                             *)
(* Draws of a size or of a position in the buffer give every value of      *)
(* their range.                                                            *)
(***************************************************************************)
\* Bytes of the caller's buffer before an operator is applied on its own.
OpBytes == {0, 1, 255}
\* Bytes of the caller's buffer before a Havoc call.
HavocBytes == {0}
\* Indices drawn of the range [0, n-1].
IndexDraws(generator, n) ==
    IF n <= 0 THEN {}
    ELSE IF generator.every THEN 0..(n - 1) ELSE {n - 1}

Min(a, b) == IF a < b THEN a ELSE b

(***************************************************************************)
(* Integers as byte sequences.                                             *)
(***************************************************************************)
RECURSIVE FromNat(_, _)
\* The w-byte representation of the natural number n.
FromNat(n, w) == IF w = 0 THEN << >> ELSE <<n % 256>> \o FromNat(n \div 256, w - 1)

\* w bytes of value b each.
Repeat(b, w) == [k \in 1..w |-> b]
\* std::numeric_limits< intW >::min(), ::max(), and -1, as w bytes.
IntMin(w) == [k \in 1..w |-> IF k = w THEN 128 ELSE 0]
IntMax(w) == [k \in 1..w |-> IF k = w THEN 127 ELSE 255]
UIntMax(w) == Repeat(255, w)

\* Details::SwapEndian: the bytes reversed.
SwapEndian(value) == [k \in 1..Len(value) |-> value[Len(value) + 1 - k]]

\* Details::ReinterpretInt: the bytes copied into a zeroed larger integer.
ReinterpretInt(w, from) == [k \in 1..w |-> IF k <= Len(from) THEN from[k] ELSE 0]

\* static_cast to a wider integer of a signed value: sign extension.
SignExtend(w, from) ==
    [k \in 1..w |-> IF k <= Len(from) THEN from[k]
                    ELSE IF from[Len(from)] >= 128 THEN 255 ELSE 0]

\* static_cast< T > to a narrower unsigned integer: the low w bytes.
Truncate(w, from) == SubSeq(from, 1, w)

RECURSIVE AddCarry(_, _, _)
AddCarry(a, b, c) ==
    IF Len(a) = 0 THEN << >>
    ELSE LET s == a[1] + b[1] + c
         IN  <<s % 256>> \o AddCarry(Tail(a), Tail(b), s \div 256)
\* a + b modulo 2^(8 * Len(a)).
AddBytes(a, b) == AddCarry(a, b, 0)

RECURSIVE SubBorrow(_, _, _)
SubBorrow(a, b, c) ==
    IF Len(a) = 0 THEN << >>
    ELSE LET s == a[1] - b[1] - c
         IN  <<s % 256>> \o SubBorrow(Tail(a), Tail(b), IF s < 0 THEN 1 ELSE 0)
\* a - b modulo 2^(8 * Len(a)).
SubBytes(a, b) == SubBorrow(a, b, 0)

RECURSIVE LessFrom(_, _, _)
LessFrom(a, b, k) ==
    IF k = 0 THEN FALSE
    ELSE IF a[k] # b[k] THEN a[k] < b[k]
    ELSE LessFrom(a, b, k - 1)
\* a < b as unsigned integers of the same width.
Less(a, b) == LessFrom(a, b, Len(a))
LessEq(a, b) == ~Less(b, a)

\* b with bit k (0..7) flipped: b ^ ( 1 << k ).
XorBit(b, k) == IF (b \div (2 ^ k)) % 2 = 1 THEN b - 2 ^ k ELSE b + 2 ^ k

(***************************************************************************)
(* The interesting-value catalog of Details.hh.                            *)
(***************************************************************************)
pInteresting8Bit ==
    << IntMin(1), UIntMax(1), FromNat(0, 1), FromNat(1, 1), FromNat(16, 1),
       FromNat(32, 1), FromNat(100, 1), IntMax(1) >>

pInteresting16Bit ==
    << UIntMax(2),
       IntMin(2),
       SubBytes(ReinterpretInt(2, IntMin(1)), FromNat(1, 2)),
       AddBytes(ReinterpretInt(2, IntMax(1)), FromNat(1, 2)),
       AddBytes(ReinterpretInt(2, UIntMax(1)), FromNat(1, 2)),
       FromNat(512, 2),
       FromNat(1000, 2),
       FromNat(1024, 2),
       FromNat(4096, 2),
       IntMin(2) >>

pInteresting32Bit ==
    << UIntMax(4),
       IntMin(4),
       FromNat(100663046, 4),
       SubBytes(ReinterpretInt(4, IntMin(2)), FromNat(1, 4)),
       AddBytes(ReinterpretInt(4, IntMax(2)), FromNat(1, 4)),
       AddBytes(ReinterpretInt(4, UIntMax(2)), FromNat(1, 4)),
       FromNat(100663045, 4),
       IntMax(4) >>

pInteresting64Bit ==
    << UIntMax(8),
       IntMin(8),
       SubBytes(ReinterpretInt(8, IntMin(4)), FromNat(1, 8)),
       AddBytes(ReinterpretInt(8, IntMax(4)), FromNat(1, 8)),
       ReinterpretInt(8, UIntMax(4)),
       AddBytes(ReinterpretInt(8, UIntMax(4)), FromNat(1, 8)),
       IntMax(8) >>

\* target with the values of source appended, without the endian-swapped
\* versions.
AddValuesOnly(source, target) ==
    target \o [k \in 1..Len(source) |-> ReinterpretInt(8, source[k])]

\* target with every value of source and its endian-swapped version appended,
\* each reinterpreted as a 64-bit integer.
AddValuesAndTheirSwappedEndians(source, target) ==
    target \o [k \in 1..(2 * Len(source)) |->
                 IF k % 2 = 1 THEN ReinterpretInt(8, source[(k + 1) \div 2])
                 ELSE ReinterpretInt(8, SwapEndian(source[k \div 2]))]

\* A sort that leaves the values where they are.
Sort_Unsorted(s) == s

\* std::ranges::sort: the values of s in ascending order.  The value at place
\* j goes to the place after the values less than it and the equal values
\* before it.
Sort(s) ==
    LET place(j) == 1 + Cardinality({m \in DOMAIN s :
                          Less(s[m], s[j]) \/ (s[m] = s[j] /\ m < j)})
    IN  [k \in DOMAIN s |-> s[CHOOSE j \in DOMAIN s : place(j) = k]]

\* std::ranges::unique and erase: the first value of every run of equal values.
Unique(s) ==
    LET kept == {k \in DOMAIN s : k = 1 \/ s[k] # s[k - 1]}
    IN  [n \in 1..Cardinality(kept) |->
           s[CHOOSE k \in kept : Cardinality({m \in kept : m <= k}) = n]]

\* Details::GetInteresting.
GetInteresting ==
    LET vecInterestingInts ==
            AddValuesAndTheirSwappedEndians(pInteresting64Bit,
              AddValuesAndTheirSwappedEndians(pInteresting32Bit,
                AddValuesAndTheirSwappedEndians(pInteresting16Bit,
                  AddValuesAndTheirSwappedEndians(pInteresting8Bit, << >>))))
    IN  Unique(Sort(vecInterestingInts))

\* Details::GetInterestingArray.
GetInterestingArray == GetInteresting

\* Details::MaxIntWithSize.
MaxIntWithSize(ui8Width) ==
    IF ui8Width <= 8 THEN ReinterpretInt(8, UIntMax(1))
    ELSE IF ui8Width <= 16 THEN ReinterpretInt(8, UIntMax(2))
    ELSE IF ui8Width <= 32 THEN ReinterpretInt(8, UIntMax(4))
    ELSE UIntMax(8)

\* std::ranges::upper_bound on a sorted array: the number of entries <= value.
UpperBound(array, value) ==
    Cardinality({k \in DOMAIN array : LessEq(array[k], value)})


(***************************************************************************)
(* Constants of the class CAFLMutationFunctions.  Its declaration is not   *)
(* among the source files.                                                 *)
(***************************************************************************)
\* The failure sentinel: a size no value has.
MUTATION_FAILED == -1
\* The number of consecutive failed mutations at which Havoc throws.  The
\* specification gives 128 as an example of this fixed bound; the model takes
\* a small one, so that runs of failures of every length up to it are
\* explored, and states every property in terms of it.
MAX_FAILED_MUTATIONS == 3
\* The largest value added or substracted by the arithmetic mutations.
ARITHMETIC_MAX == 35

\* The generator of an operator applied on its own.
OpGenerator ==
    [bits |-> {0, 7}, bytes1 |-> {1, 255}, bytes0 |-> {0, 254},
     uint64 |-> {FromNat(1, 8), FromNat(256, 8), UIntMax(8)},
     arithmetic |-> {1, ARITHMETIC_MAX}, every |-> TRUE]

\* The generator of a Havoc call.
HavocGenerator ==
    [bits |-> {7}, bytes1 |-> {255}, bytes0 |-> {0},
     uint64 |-> {FromNat(1, 8)},
     arithmetic |-> {1}, every |-> FALSE]

(***************************************************************************)
(* The interesting values of the class (constructor of                     *)
(* CAFLMutationFunctions).                                                 *)
(***************************************************************************)
vecInteresting8Bit ==
    << IntMin(1), UIntMax(1), FromNat(0, 1), FromNat(1, 1), FromNat(16, 1),
       FromNat(32, 1), FromNat(100, 1), IntMax(1) >>

vecInteresting16Bit ==
    << IntMin(2),
       SubBytes(SignExtend(2, IntMin(1)), FromNat(1, 2)),
       AddBytes(SignExtend(2, IntMax(1)), FromNat(1, 2)),
       ReinterpretInt(2, UIntMax(1)),
       AddBytes(ReinterpretInt(2, UIntMax(1)), FromNat(1, 2)),
       FromNat(512, 2),
       FromNat(1000, 2),
       FromNat(1024, 2),
       FromNat(4096, 2),
       IntMin(2) >>

vecInteresting32Bit ==
    << IntMin(4),
       FromNat(100663046, 4),
       SubBytes(SignExtend(4, IntMin(2)), FromNat(1, 4)),
       AddBytes(SignExtend(4, IntMax(2)), FromNat(1, 4)),
       ReinterpretInt(4, UIntMax(2)),
       AddBytes(ReinterpretInt(4, UIntMax(2)), FromNat(1, 4)),
       FromNat(100663045, 4),
       IntMax(4) >>

vecInteresting64Bit ==
    << IntMin(8),
       SubBytes(SignExtend(8, IntMin(4)), FromNat(1, 8)),
       AddBytes(SignExtend(8, IntMax(4)), FromNat(1, 8)),
       ReinterpretInt(8, UIntMax(4)),
       AddBytes(ReinterpretInt(8, UIntMax(4)), FromNat(1, 8)),
       IntMax(8) >>

\* AddOtherEndian: the vector followed by the swapped endian of every value.
AddOtherEndian(vecInteresting) ==
    vecInteresting \o [k \in 1..Len(vecInteresting) |-> SwapEndian(vecInteresting[k])]

\* m_vecInterestingInts: every value cast from its signed type to size_t.
m_vecInterestingInts ==
    LET all == vecInteresting8Bit \o AddOtherEndian(vecInteresting16Bit)
               \o AddOtherEndian(vecInteresting32Bit)
               \o AddOtherEndian(vecInteresting64Bit)
    IN  [k \in 1..Len(all) |-> SignExtend(8, all[k])]

m_uiIteresting8Bit == Len(vecInteresting8Bit)
m_uiIteresting16Bit == Len(AddOtherEndian(vecInteresting16Bit))
m_uiIteresting32Bit == Len(AddOtherEndian(vecInteresting32Bit))
m_uiIteresting64Bit == Len(AddOtherEndian(vecInteresting64Bit))

\* CAFLMutationFunctions::GetInterestingValues for the type of w bytes.
GetInterestingValues(w) ==
    SubSeq(m_vecInterestingInts, 1,
           CASE w = 1 -> m_uiIteresting8Bit
             [] w = 2 -> m_uiIteresting16Bit
             [] w = 4 -> m_uiIteresting32Bit
             [] w = 8 -> m_uiIteresting64Bit)

(***************************************************************************)
(* Buffers.  The outcome of one operator call is a record: the buffer      *)
(* after the call, the returned size (or MUTATION_FAILED), the set of byte *)
(* indices the call wrote, and the position and length of the block or     *)
(* window it drew.                                                         *)
(***************************************************************************)
Out(b, r, w, p, l) == [buf |-> b, ret |-> r, wr |-> w, pos |-> p, len |-> l]

\* The w bytes of b at offset p.
ReadAt(b, p, w) == [k \in 1..w |-> b[p + k - 1]]
\* b with the bytes of v written at offset p (std::memcpy of a value, std::ranges::copy).
WriteAt(b, p, v) ==
    [k \in DOMAIN b |-> IF p <= k /\ k < p + Len(v) THEN v[k - p + 1] ELSE b[k]]
\* std::memset, std::ranges::fill: n bytes of value c at offset p.
Fill(b, p, n, c) == [k \in DOMAIN b |-> IF p <= k /\ k < p + n THEN c ELSE b[k]]
\* std::memmove, and std::ranges::copy / copy_backward in their defined direction:
\* n bytes from offset src to offset dst, read before any is overwritten.
Move(b, dst, src, n) ==
    [k \in DOMAIN b |-> IF dst <= k /\ k < dst + n THEN b[src + (k - dst)] ELSE b[k]]
\* A byte-by-byte copy in ascending order, which re-reads bytes it has written
\* when the destination starts inside the source.
ForwardCopy(b, dst, src, n) ==
    [k \in DOMAIN b |->
        IF dst <= k /\ k < dst + n
        THEN IF src < dst /\ dst < src + n
             THEN b[src + ((k - dst) % (dst - src))]
             ELSE b[src + (k - dst)]
        ELSE b[k]]
\* std::memcpy: undefined when the two blocks overlap; a build then copies in
\* either direction.
Memcpy(b, dst, src, n) ==
    IF n > 0 /\ src < dst /\ dst < src + n
    THEN {Move(b, dst, src, n), ForwardCopy(b, dst, src, n)}
    ELSE {Move(b, dst, src, n)}

\* The indices p .. p+n-1.
Span(p, n) == p .. (p + n - 1)

\* The capacity of a buffer.
Capacity(b) == Cardinality(DOMAIN b)

(***************************************************************************)
(* CAlignmentSafeReference< T > of AlignmentSafeReference.hh, T of w bytes: *)
(* the offset in the buffer its pointer m_pData points to and the copy     *)
(* m_Value.                                                                *)
(***************************************************************************)
\* The constructor: std::memcpy( &m_Value, m_pData, sizeof( T ) ).
CAlignmentSafeReference(b, pData, w) ==
    [m_pData |-> pData, m_Value |-> ReadAt(b, pData, w)]

\* Get.
Get(asr) == asr.m_Value

\* A Set that updates the copy and leaves the buffer alone.
Set_CopyOnly(asr, b, value) ==
    [asr |-> [asr EXCEPT !.m_Value = value], buf |-> b]

\* Set of a value that is no object of the buffer (Set documents the
\* behaviour as undefined otherwise): the reference and the buffer after it.
Set(asr, b, value) ==
    [asr |-> [asr EXCEPT !.m_Value = value], buf |-> WriteAt(b, asr.m_pData, value)]

(***************************************************************************)
(* The mutation operators of include/AFLMutationFunctions.hh.  A span of   *)
(* the first `size` bytes of the buffer b is given as (b, size).  Each     *)
(* operator is the set of the outcomes of its calls, one per choice of the *)
(* random draws.                                                           *)
(***************************************************************************)

\* FillSubrangeWithRandomValues cloning with std::ranges::copy in either
\* direction.
FillSubrangeWithRandomValues_CopyForward(b, rangeSize, pos, len, generator) ==
    LET sourceSize == Min(rangeSize, len)
        clone ==
            IF rangeSize > 1
            THEN { IF sizeOffset # pos
                   THEN Out(ForwardCopy(b, pos, sizeOffset, sourceSize), 0,
                            Span(pos, sourceSize), pos, len)
                   ELSE Out(b, 0, {}, pos, len)
                   : sizeOffset \in 0..(rangeSize - sourceSize) }
            ELSE {}
        bytes ==
            (IF rangeSize > 0 THEN {b[k] : k \in 0..(rangeSize - 1)} ELSE {})
            \cup generator.bytes0
        repeat == { Out(Fill(b, pos, len, byteRandom), 0, Span(pos, len), pos, len)
                    : byteRandom \in bytes }
    IN  clone \cup repeat

\* Details::FillSubrangeWithRandomValues: range is the first rangeSize bytes of
\* b, subrange the len bytes at offset pos.
FillSubrangeWithRandomValues(b, rangeSize, pos, len, generator) ==
    LET sourceSize == Min(rangeSize, len)
        clone ==
            IF rangeSize > 1
            THEN { IF sizeOffset # pos
                   THEN Out(Move(b, pos, sizeOffset, sourceSize), 0,
                            Span(pos, sourceSize), pos, len)
                   ELSE Out(b, 0, {}, pos, len)
                   : sizeOffset \in 0..(rangeSize - sourceSize) }
            ELSE {}
        bytes ==
            (IF rangeSize > 0 THEN {b[k] : k \in 0..(rangeSize - 1)} ELSE {})
            \cup generator.bytes0
        repeat == { Out(Fill(b, pos, len, byteRandom), 0, Span(pos, len), pos, len)
                    : byteRandom \in bytes }
    IN  clone \cup repeat

\* FlipBit.
FlipBit(b, size, generator) ==
    { Out([b EXCEPT ![k] = XorBit(b[k], bit)], size, {k}, k, 1)
      : k \in 0..(size - 1), bit \in generator.bits }

\* The subrange `possible` of InterestingValue for the value size drawn: the
\* interesting integers from the first to the upper bound of
\* MaxIntWithSize( ui8ValueSize ).
possible(ui8ValueSize) ==
    LET arrayInterestingInts == GetInterestingArray
        end == UpperBound(arrayInterestingInts, MaxIntWithSize(ui8ValueSize))
    IN  SubSeq(arrayInterestingInts, 1, end)

\* InterestingValue copying the bytes to the start of the buffer as well as to
\* the location drawn.
InterestingValue_TwoWindows(b, size, generator) ==
    LET ui8MaxSize == Min(8, size)
    IN  UNION {
          { LET bytes == SubSeq(possible(ui8ValueSize)[index + 1], 1, ui8ValueSize)
            IN  Out(WriteAt(WriteAt(b, 0, bytes), sizeOffset, bytes),
                    size, Span(sizeOffset, ui8ValueSize), sizeOffset, ui8ValueSize)
            : index \in IndexDraws(generator, Len(possible(ui8ValueSize))),
              sizeOffset \in 0..(size - ui8ValueSize) }
          : ui8ValueSize \in 1..ui8MaxSize }

\* InterestingValue.
InterestingValue(b, size, generator) ==
    LET ui8MaxSize == Min(8, size)
    IN  UNION {
          { Out(WriteAt(b, sizeOffset,
                        SubSeq(possible(ui8ValueSize)[index + 1], 1, ui8ValueSize)),
                size, Span(sizeOffset, ui8ValueSize), sizeOffset, ui8ValueSize)
            : index \in IndexDraws(generator, Len(possible(ui8ValueSize))),
              sizeOffset \in 0..(size - ui8ValueSize) }
          : ui8ValueSize \in 1..ui8MaxSize }

\* Arithmetic copying one byte more of the temporary value back than it took,
\* where the buffer has one: the carry or borrow reaches the byte after the
\* window.
Arithmetic_Carrying(b, sizeBuffer, plus, generator) ==
    UNION {
      { LET ui64Temporary == ReinterpretInt(8, ReadAt(b, sizeOffset, size))
            result == IF plus THEN AddBytes(ui64Temporary, ui64Value)
                      ELSE SubBytes(ui64Temporary, ui64Value)
        IN  Out(WriteAt(b, sizeOffset,
                        SubSeq(result, 1, Min(size + 1, sizeBuffer - sizeOffset))),
                sizeBuffer, Span(sizeOffset, size), sizeOffset, size)
        : ui64Value \in generator.uint64, sizeOffset \in 0..(sizeBuffer - size) }
      : size \in 1..Min(8, sizeBuffer) }

\* Arithmetic< Gen, std::plus< uint64_t > > (plus) and
\* Arithmetic< Gen, std::minus< uint64_t > > (not plus).
Arithmetic(b, sizeBuffer, plus, generator) ==
    UNION {
      { LET ui64Temporary == ReinterpretInt(8, ReadAt(b, sizeOffset, size))
            result == IF plus THEN AddBytes(ui64Temporary, ui64Value)
                      ELSE SubBytes(ui64Temporary, ui64Value)
        IN  Out(WriteAt(b, sizeOffset, SubSeq(result, 1, size)),
                sizeBuffer, Span(sizeOffset, size), sizeOffset, size)
        : ui64Value \in generator.uint64, sizeOffset \in 0..(sizeBuffer - size) }
      : size \in 1..Min(8, sizeBuffer) }

\* RandomByteReplace writing back the byte it found.
RandomByteReplace_SameByte(b, size, generator) ==
    { Out(b, size, {k}, k, 1) : k \in 0..(size - 1) }

\* RandomByteReplace.
RandomByteReplace(b, size, generator) ==
    { Out([b EXCEPT ![k] = byte], size, {k}, k, 1)
      : k \in 0..(size - 1), byte \in generator.bytes1 }

\* RemoveRandomBlock with a block that may be empty (the draw of the block
\* length starting at 0 instead of 1).
RemoveRandomBlock_EmptyBlock(b, size, generator) ==
    UNION {
      { LET tailSize == size - randomEnd
            moved == Move(b, randomStart, randomEnd, tailSize)
        IN  Out(Fill(moved, randomEnd, tailSize, 0),
                randomStart + tailSize,
                Span(randomStart, tailSize) \cup Span(randomEnd, tailSize),
                randomStart, randomEnd - randomStart)
        : randomEnd \in randomStart..size }
      : randomStart \in 0..(size - 1) }

\* RemoveRandomBlock: the block removed is [randomStart, randomEnd).
RemoveRandomBlock(b, size, generator) ==
    UNION {
      { LET tailSize == size - randomEnd
            moved == Move(b, randomStart, randomEnd, tailSize)
        IN  Out(Fill(moved, randomEnd, tailSize, 0),
                randomStart + tailSize,
                Span(randomStart, tailSize) \cup Span(randomEnd, tailSize),
                randomStart, randomEnd - randomStart)
        : randomEnd \in (randomStart + 1)..size }
      : randomStart \in 0..(size - 1) }

\* RandomBlockInsert with the block length drawn up to one more than the free
\* space of the buffer.
RandomBlockInsert_OffByOne(b, sizeValue, generator) ==
    UNION {
      LET moved == Move(b, randomBegin + sizeRandomBlock, randomBegin,
                        sizeValue - randomBegin)
      IN  { Out(o.buf, sizeValue + sizeRandomBlock,
                o.wr \cup Span(randomBegin + sizeRandomBlock, sizeValue - randomBegin),
                randomBegin, sizeRandomBlock)
            : o \in FillSubrangeWithRandomValues(moved, sizeValue, randomBegin,
                                                 sizeRandomBlock, generator) }
      : sizeRandomBlock \in 1..(Capacity(b) - sizeValue + 1),
        randomBegin \in 0..sizeValue }

\* RandomBlockInsert: the span is the whole buffer, the value its first
\* sizeValue bytes.
RandomBlockInsert(b, sizeValue, generator) ==
    UNION {
      LET moved == Move(b, randomBegin + sizeRandomBlock, randomBegin,
                        sizeValue - randomBegin)
      IN  { Out(o.buf, sizeValue + sizeRandomBlock,
                o.wr \cup Span(randomBegin + sizeRandomBlock, sizeValue - randomBegin),
                randomBegin, sizeRandomBlock)
            : o \in FillSubrangeWithRandomValues(moved, sizeValue, randomBegin,
                                                 sizeRandomBlock, generator) }
      : sizeRandomBlock \in 1..(Capacity(b) - sizeValue),
        randomBegin \in 0..sizeValue }

\* RandomChunkOverwrite.
RandomChunkOverwrite(b, size, generator) ==
    UNION {
      UNION {
        { Out(o.buf, size, o.wr, sizeOffset, sizeRandomBlock)
          : o \in FillSubrangeWithRandomValues(b, size, sizeOffset, sizeRandomBlock,
                                                 generator) }
        : sizeOffset \in 0..(size - sizeRandomBlock) }
      : sizeRandomBlock \in 1..size }

(***************************************************************************)
(* The mutation operators of the class CAFLMutationFunctions               *)
(* (AFLMutationFunctions.cpp).                                             *)
(***************************************************************************)
\* A call that returns MUTATION_FAILED after it has written to the buffer.
Failed_AfterWriting(b) ==
    Out([k \in DOMAIN b |-> (b[k] + 1) % 256], MUTATION_FAILED, {}, 0, 0)

\* A call that returns MUTATION_FAILED before writing anything.
Failed(b) == Out(b, MUTATION_FAILED, {}, 0, 0)

\* CAFLMutationFunctions::ChooseIndexOfRandomBlock: the indices it may return.
ChooseIndexOfRandomBlock(size, sizeBlock) == 0..(size - sizeBlock)

\* CAFLMutationFunctions::FlipBit.
CAFL_FlipBit(b, size, generator) ==
    IF size <= 0 THEN {Failed(b)}
    ELSE { Out(WriteAt(b, k, <<XorBit(b[k], bit)>>), size, {k}, k, 1)
           : k \in ChooseIndexOfRandomBlock(size, 1), bit \in generator.bits }

\* CAFLMutationFunctions::InterestingValue< T >, sizeof( T ) = w.
CAFL_InterestingValue(w, b, size, generator) ==
    IF size < w THEN {Failed(b)}
    ELSE LET spanInteresting == GetInterestingValues(w)
         IN  { Out(WriteAt(b, k, Truncate(w, spanInteresting[index + 1])),
                   size, Span(k, w), k, w)
               : index \in IndexDraws(generator, Len(spanInteresting)),
                 k \in ChooseIndexOfRandomBlock(size, w) }

\* The value added or substracted: drawn, cast to T and maybe endian-swapped.
RandomValues(w, generator) ==
    { FromNat(r, w) : r \in generator.arithmetic }
    \cup (IF w >= 2 THEN { SwapEndian(FromNat(r, w)) : r \in generator.arithmetic }
          ELSE {})

\* CAFLMutationFunctions::ArithmeticAdd< T >, sizeof( T ) = w.
CAFL_ArithmeticAdd(w, b, size, generator) ==
    IF size < w THEN {Failed(b)}
    ELSE { Out(WriteAt(b, k, AddBytes(ReadAt(b, k, w), randomValue)),
               size, Span(k, w), k, w)
           : randomValue \in RandomValues(w, generator),
             k \in ChooseIndexOfRandomBlock(size, w) }

\* CAFLMutationFunctions::ArithmeticSubstract< T >, sizeof( T ) = w.
CAFL_ArithmeticSubstract(w, b, size, generator) ==
    IF size < w THEN {Failed(b)}
    ELSE { Out(WriteAt(b, k, SubBytes(ReadAt(b, k, w), randomValue)),
               size, Span(k, w), k, w)
           : randomValue \in RandomValues(w, generator),
             k \in ChooseIndexOfRandomBlock(size, w) }

\* CAFLMutationFunctions::RandomByteReplace.
CAFL_RandomByteReplace(b, size, generator) ==
    IF size <= 0 THEN {Failed(b)}
    ELSE { Out(WriteAt(b, k, <<byte>>), size, {k}, k, 1)
           : k \in ChooseIndexOfRandomBlock(size, 1), byte \in generator.bytes1 }

\* RemoveRandomBlock with a std::memset of one byte more than was removed.
CAFL_RemoveRandomBlock_LongMemset(b, size, generator) ==
    IF size <= 1 THEN {Failed(b)}
    ELSE UNION {
           { LET sizeRemainder == size - sizeRandomBlockIndex - sizeDelete
                 moved == Move(b, sizeRandomBlockIndex,
                               sizeRandomBlockIndex + sizeDelete, sizeRemainder)
             IN  Out(Fill(moved, sizeRandomBlockIndex + sizeRemainder, sizeDelete + 1, 0),
                     size - sizeDelete,
                     Span(sizeRandomBlockIndex, sizeRemainder + sizeDelete),
                     sizeRandomBlockIndex, sizeDelete)
             : sizeRandomBlockIndex \in ChooseIndexOfRandomBlock(size, sizeDelete) }
           : sizeDelete \in 1..(size - 1) }

\* CAFLMutationFunctions::RemoveRandomBlock.
CAFL_RemoveRandomBlock(b, size, generator) ==
    IF size <= 1 THEN {Failed(b)}
    ELSE UNION {
           { LET sizeRemainder == size - sizeRandomBlockIndex - sizeDelete
                 moved == Move(b, sizeRandomBlockIndex,
                               sizeRandomBlockIndex + sizeDelete, sizeRemainder)
             IN  Out(Fill(moved, sizeRandomBlockIndex + sizeRemainder, sizeDelete, 0),
                     size - sizeDelete,
                     Span(sizeRandomBlockIndex, sizeRemainder + sizeDelete),
                     sizeRandomBlockIndex, sizeDelete)
             : sizeRandomBlockIndex \in ChooseIndexOfRandomBlock(size, sizeDelete) }
           : sizeDelete \in 1..(size - 1) }

\* CAFLMutationFunctions::RandomBlockInsert.
CAFL_RandomBlockInsert(b, size, sizeMax, generator) ==
    IF sizeMax <= size THEN {Failed(b)}
    ELSE UNION {
           LET sizeTail == size - sizeInsertPosition
               sizeNewTailPosition == sizeInsertPosition + sizeInsertBlock
               written == Span(sizeNewTailPosition, sizeTail)
                          \cup Span(sizeInsertPosition, sizeInsertBlock)
           IN  UNION {
                 LET clone ==
                         IF size > 0
                         THEN { Move(moved, sizeInsertPosition, sizeCloneFromIndex,
                                     sizeInsertBlock)
                                : sizeCloneFromIndex \in
                                    ChooseIndexOfRandomBlock(sizeMax, sizeInsertBlock) }
                         ELSE {}
                     bytes ==
                         generator.bytes0 \cup
                         (IF size > 0
                          THEN { moved[k] : k \in ChooseIndexOfRandomBlock(size, 1) }
                          ELSE {})
                     repeat == { Fill(moved, sizeInsertPosition, sizeInsertBlock,
                                      ui8RandomByte)
                                 : ui8RandomByte \in bytes }
                 IN  { Out(after, size + sizeInsertBlock, written,
                           sizeInsertPosition, sizeInsertBlock)
                       : after \in clone \cup repeat }
                 : moved \in Memcpy(b, sizeNewTailPosition, sizeInsertPosition,
                                    sizeTail) }
           : sizeInsertBlock \in 1..(sizeMax - size),
             sizeInsertPosition \in 0..size }

\* CAFLMutationFunctions::RandomChunkOverwrite.
CAFL_RandomChunkOverwrite(b, size, generator) ==
    IF size <= 0 THEN {Failed(b)}
    ELSE UNION {
           UNION {
             LET clone == { Move(b, sizeReplaceToIndex, sizeCloneFromIndex,
                                 sizeReplaceBlock)
                            : sizeCloneFromIndex \in
                                ChooseIndexOfRandomBlock(size, sizeReplaceBlock) }
                 bytes == generator.bytes0 \cup
                          { b[k] : k \in ChooseIndexOfRandomBlock(size, 1) }
                 repeat == { Fill(b, sizeReplaceToIndex, sizeReplaceBlock, ui8RandomByte)
                             : ui8RandomByte \in bytes }
             IN  { Out(after, size, Span(sizeReplaceToIndex, sizeReplaceBlock),
                       sizeReplaceToIndex, sizeReplaceBlock)
                   : after \in clone \cup repeat }
             : sizeReplaceToIndex \in ChooseIndexOfRandomBlock(size, sizeReplaceBlock) }
           : sizeReplaceBlock \in 1..size }

(***************************************************************************)
(* The operator catalogs of the two Havoc drivers.                         *)
(***************************************************************************)
\* Details::Mutation: an operator with its MutationType.
Mutation(name, type) == [name |-> name, type |-> type]
IsReducing(m) == m.type = "Reducing"
IsIncreasing(m) == m.type = "Increasing"
IsConstant(m) == m.type = "Constant"

\* GetMutationFunctions.
GetMutationFunctions ==
    << Mutation("FlipBit", "Constant"),
       Mutation("InterestingValue", "Constant"),
       Mutation("ArithmeticPlus", "Constant"),
       Mutation("ArithmeticMinus", "Constant"),
       Mutation("RandomByteReplace", "Constant"),
       Mutation("RemoveRandomBlock", "Reducing"),
       Mutation("RandomBlockInsert", "Increasing"),
       Mutation("RandomByteReplace", "Constant") >>

\* Mutation::operator(): the wrapped operator called on the value of `size`
\* bytes in buffer b.
Invoke(m, b, size, generator) ==
    CASE m.name = "FlipBit" -> FlipBit(b, size, generator)
      [] m.name = "InterestingValue" -> InterestingValue(b, size, generator)
      [] m.name = "ArithmeticPlus" -> Arithmetic(b, size, TRUE, generator)
      [] m.name = "ArithmeticMinus" -> Arithmetic(b, size, FALSE, generator)
      [] m.name = "RandomByteReplace" -> RandomByteReplace(b, size, generator)
      [] m.name = "RemoveRandomBlock" -> RemoveRandomBlock(b, size, generator)
      [] m.name = "RandomBlockInsert" -> RandomBlockInsert(b, size, generator)

\* A filter without the check that an increasing operator has room to grow.
FilterMutations_NoRoomCheck(mutations, sizeBuffer, sizeValue) ==
    LET bMustIncrease == sizeValue = 0
        bMustReduce == sizeBuffer < sizeValue
        Keep(m) == /\ (~bMustIncrease \/ IsIncreasing(m))
                   /\ (~bMustReduce \/ IsReducing(m))
    IN  SelectSeq(mutations, Keep)

\* Details::Ranges::FilterMutations.
FilterMutations(mutations, sizeBuffer, sizeValue) ==
    LET bCanIncrease == sizeBuffer > sizeValue
        bMustIncrease == sizeValue = 0
        bMustReduce == sizeBuffer < sizeValue
        Keep(m) == /\ (~bMustIncrease \/ IsIncreasing(m))
                   /\ (~bMustReduce \/ IsReducing(m))
                   /\ (bCanIncrease \/ ~IsIncreasing(m))
    IN  SelectSeq(mutations, Keep)

\* A bound member function of the class: its name and sizeof( T ).
MutationFunction(name, w) == [name |-> name, w |-> w]

\* m_vecHavocOperationsConstSize.
m_vecHavocOperationsConstSize ==
    << MutationFunction("FlipBit", 1),
       MutationFunction("InterestingValue", 1),
       MutationFunction("InterestingValue", 2),
       MutationFunction("InterestingValue", 4),
       MutationFunction("InterestingValue", 8),
       MutationFunction("ArithmeticSubstract", 1),
       MutationFunction("ArithmeticSubstract", 2),
       MutationFunction("ArithmeticSubstract", 4),
       MutationFunction("ArithmeticSubstract", 8),
       MutationFunction("ArithmeticAdd", 1),
       MutationFunction("ArithmeticAdd", 2),
       MutationFunction("ArithmeticAdd", 4),
       MutationFunction("ArithmeticAdd", 8),
       MutationFunction("RandomByteReplace", 1),
       MutationFunction("RemoveRandomBlock", 1),
       MutationFunction("RemoveRandomBlock", 1),
       MutationFunction("RandomChunkOverwrite", 1) >>

\* m_vecHavocOperationsSizeIncrease.
m_vecHavocOperationsSizeIncrease ==
    << MutationFunction("RandomBlockInsert", 1) >>

\* The call funcOperation( this, pui8Buffer, sizeNew, sizeMax ).
CAFL_Invoke(f, b, size, sizeMax, generator) ==
    CASE f.name = "FlipBit" -> CAFL_FlipBit(b, size, generator)
      [] f.name = "InterestingValue" -> CAFL_InterestingValue(f.w, b, size, generator)
      [] f.name = "ArithmeticSubstract" -> CAFL_ArithmeticSubstract(f.w, b, size, generator)
      [] f.name = "ArithmeticAdd" -> CAFL_ArithmeticAdd(f.w, b, size, generator)
      [] f.name = "RandomByteReplace" -> CAFL_RandomByteReplace(b, size, generator)
      [] f.name = "RemoveRandomBlock" -> CAFL_RemoveRandomBlock(b, size, generator)
      [] f.name = "RandomChunkOverwrite" -> CAFL_RandomChunkOverwrite(b, size, generator)
      [] f.name = "RandomBlockInsert" -> CAFL_RandomBlockInsert(b, size, sizeMax, generator)

\* CVectorConcatenation: the vectors concatenated by the calls of Concatenate,
\* Size() and the element At( sizePosition ).
VectorConcatenation_Size(vecs) ==
    IF Len(vecs) = 0 THEN 0
    ELSE IF Len(vecs) = 1 THEN Len(vecs[1])
    ELSE Len(vecs[1]) + Len(vecs[2])

VectorConcatenation_At(vecs, sizePosition) ==
    IF Len(vecs) >= 1 /\ sizePosition < Len(vecs[1]) THEN vecs[1][sizePosition + 1]
    ELSE vecs[2][sizePosition - Len(vecs[1]) + 1]

\* The operations concatenated without those that increase the size.
PossibleMutations_ConstSizeOnly(sizeNew, szMax) ==
    IF sizeNew # 0 THEN <<m_vecHavocOperationsConstSize>> ELSE << >>

\* The operations Havoc concatenates for the sizes sizeNew and sizeMax.
PossibleMutations(sizeNew, szMax) ==
    (IF szMax > sizeNew THEN <<m_vecHavocOperationsSizeIncrease>> ELSE << >>)
    \o (IF sizeNew # 0 THEN <<m_vecHavocOperationsConstSize>> ELSE << >>)

(***************************************************************************)
(* The state of one call.                                                  *)
(*   impl      which code runs: "class" (CAFLMutationFunctions) or         *)
(*             "template" (the function templates)                         *)
(*   buffer    the caller's buffer (pui8Buffer, spanBuffer)                *)
(*   sizeMax   its capacity (sizeMax, spanBuffer.size())                   *)
(*   sizeValue the size of the value (sizeNew, spanValue.size())           *)
(*   pc        where the call is: "call" before it, "loop" at the head of  *)
(*             the loop of Havoc, "done" returned, "invalid_argument" and  *)
(*             "hung" the two exceptions of the class, "out_of_range" the  *)
(*             exception of CVectorConcatenation::At, "undefined" after    *)
(*             undefined behaviour, "applied" after one operator applied   *)
(*             on its own                                                  *)
(*   uiHavocIterations, i, uiIterationsWithErrors   the locals of Havoc    *)
(*   attempts, applied   history: the operator calls made by the call of   *)
(*             Havoc and those of them that did not fail                   *)
(*   last      history: the last operator call, with the buffer and the    *)
(*             size it was given and its outcome                           *)
(*   args      history: the buffer and the size the call was given         *)
(*   asrValue  the CAlignmentSafeReference of the caller: the offset       *)
(*             m_pData points to and the copy m_Value                      *)
(***************************************************************************)
VARIABLES impl, buffer, sizeMax, sizeValue, pc, uiHavocIterations, i,
          uiIterationsWithErrors, attempts, applied, last, args, asrValue

vars == << impl, buffer, sizeMax, sizeValue, pc, uiHavocIterations, i,
           uiIterationsWithErrors, attempts, applied, last, args, asrValue >>

\* No reference constructed.
NoReference == [m_pData |-> -1, m_Value |-> << >>]

\* No operator called yet.
NoCall(b, size) ==
    [op |-> "none", type |-> "none", w |-> 0, buf0 |-> b, size0 |-> size,
     buf |-> b, ret |-> size, wr |-> {}, pos |-> 0, len |-> 0]

\* The record of a call of operator `name` on (b, size) with outcome o.
Called(name, type, w, b, size, o) ==
    [op |-> name, type |-> type, w |-> w, buf0 |-> b, size0 |-> size,
     buf |-> o.buf, ret |-> o.ret, wr |-> o.wr, pos |-> o.pos, len |-> o.len]

\* The buffers of capacity cap with bytes of the set bytes.
Buffers(cap, bytes) == [0..(cap - 1) -> bytes]

\* A call of Havoc about to be made: any buffer, and any size up to one past
\* the capacity.
Init ==
    \E im \in {"class", "template"}, cap \in 0..MaxCapacity :
      \E b \in Buffers(cap, HavocBytes), size \in 0..(cap + 1) :
        /\ impl = im
        /\ buffer = b
        /\ sizeMax = cap
        /\ sizeValue = size
        /\ pc = "call"
        /\ uiHavocIterations = 0
        /\ i = 0
        /\ uiIterationsWithErrors = 0
        /\ attempts = 0
        /\ applied = 0
        /\ last = NoCall(b, size)
        /\ args = [buf |-> b, size |-> size]
        /\ asrValue = NoReference

\* maxPower of StackedHavocOperationsCount, MaxIterationsPower of Havoc.
maxPower == 5

\* std::pow( 2, uniform_real_distribution( 0, maxPower ) ) converted to unsigned
\* int: 1 .. 2^maxPower - 1, here up to MaxHavocIterations.
StackedHavocOperationsCount == 1..Min(2 ^ maxPower - 1, MaxHavocIterations)

(***************************************************************************)
(* CAFLMutationFunctions::Havoc.                                           *)
(***************************************************************************)
\* The check of the sizes without the comparison of size and sizeMax.
CAFL_InvalidSize_NoUpper(size, szMax) == size < 0 \/ (size = 0 /\ szMax = 0)

\* The check of the sizes.
CAFL_InvalidSize(size, szMax) == size < 0 \/ size > szMax \/ (size = 0 /\ szMax = 0)

\* Entry: the check of the sizes and the draw of the iteration count.
CAFL_HavocEnter ==
    /\ pc = "call"
    /\ impl = "class"
    /\ IF CAFL_InvalidSize(sizeValue, sizeMax)
       THEN /\ pc' = "invalid_argument"
            /\ UNCHANGED uiHavocIterations
       ELSE /\ pc' = "loop"
            /\ uiHavocIterations' \in StackedHavocOperationsCount
    /\ UNCHANGED << impl, buffer, sizeMax, sizeValue, i, uiIterationsWithErrors,
                    attempts, applied, last, args, asrValue >>

\* The comparison with the maximum made with > instead of >=.
CAFL_TooManyFailures_OffByOne(uiErrors) == uiErrors > MAX_FAILED_MUTATIONS

\* Whether the failed mutations counted reach the maximum.
CAFL_TooManyFailures(uiErrors) == uiErrors >= MAX_FAILED_MUTATIONS

\* The loop counter with a failed mutation counted as an iteration.
CAFL_NextIteration_Counted(iBefore, sizeNew) == iBefore + 1

\* The loop counter after one pass of the loop body: i-- when the mutation
\* failed, then the i++ of the for statement.
CAFL_NextIteration(iBefore, sizeNew) ==
    IF sizeNew = MUTATION_FAILED THEN (iBefore - 1) + 1 ELSE iBefore + 1

\* One iteration of the loop.
CAFL_HavocIterate ==
    /\ pc = "loop"
    /\ impl = "class"
    /\ i < uiHavocIterations
    /\ LET vcmfPossibleMutations == PossibleMutations(sizeValue, sizeMax)
       IN  IF VectorConcatenation_Size(vcmfPossibleMutations) = 0
           THEN /\ pc' = "out_of_range"
                /\ UNCHANGED << buffer, sizeValue, i, uiIterationsWithErrors,
                                attempts, applied, last >>
           ELSE \E sizeOperationIndex \in
                    0..(VectorConcatenation_Size(vcmfPossibleMutations) - 1) :
                  LET funcOperation == VectorConcatenation_At(vcmfPossibleMutations,
                                                              sizeOperationIndex)
                      sizeBeforeMutation == sizeValue
                  IN  \E o \in CAFL_Invoke(funcOperation, buffer, sizeValue, sizeMax,
                                          HavocGenerator) :
                        /\ buffer' = o.buf
                        /\ last' = Called(funcOperation.name, "class", funcOperation.w,
                                          buffer, sizeValue, o)
                        /\ attempts' = attempts + 1
                        /\ i' = CAFL_NextIteration(i, o.ret)
                        /\ IF o.ret = MUTATION_FAILED
                           THEN /\ sizeValue' = sizeBeforeMutation
                                /\ uiIterationsWithErrors' = uiIterationsWithErrors + 1
                                /\ applied' = applied
                                /\ pc' = IF CAFL_TooManyFailures(uiIterationsWithErrors + 1)
                                         THEN "hung" ELSE "loop"
                           ELSE /\ sizeValue' = o.ret
                                /\ uiIterationsWithErrors' = 0
                                /\ applied' = applied + 1
                                /\ pc' = "loop"
    /\ UNCHANGED << impl, sizeMax, uiHavocIterations, args, asrValue >>

\* The end of the loop: return sizeNew.
CAFL_HavocReturn ==
    /\ pc = "loop"
    /\ impl = "class"
    /\ ~(i < uiHavocIterations)
    /\ pc' = "done"
    /\ UNCHANGED << impl, buffer, sizeMax, sizeValue, uiHavocIterations, i,
                    uiIterationsWithErrors, attempts, applied, last, args, asrValue >>

(***************************************************************************)
(* Havoc of include/AFLMutationFunctions.hh.                               *)
(***************************************************************************)
\* Entry: the size clamped to the buffer and the draw of the iteration count.
HavocEnter ==
    /\ pc = "call"
    /\ impl = "template"
    /\ sizeValue' = Min(sizeValue, sizeMax)
    /\ uiHavocIterations' \in StackedHavocOperationsCount
    /\ pc' = "loop"
    /\ UNCHANGED << impl, buffer, sizeMax, i, uiIterationsWithErrors, attempts,
                    applied, last, args, asrValue >>

\* One iteration of the loop.  Details::Ranges::SelectRandom takes the front of
\* a vector that std::ranges::sample left empty when no mutation passes the
\* filter: undefined behaviour.
HavocIterate ==
    /\ pc = "loop"
    /\ impl = "template"
    /\ i < uiHavocIterations
    /\ LET filtered == FilterMutations(GetMutationFunctions, sizeMax, sizeValue)
       IN  IF Len(filtered) = 0
           THEN /\ pc' = "undefined"
                /\ UNCHANGED << buffer, sizeValue, i, attempts, applied, last >>
           ELSE \E k \in 1..Len(filtered) :
                  LET mutationSelected == filtered[k]
                  IN  \E o \in Invoke(mutationSelected, buffer, sizeValue, HavocGenerator) :
                        /\ buffer' = o.buf
                        /\ last' = Called(mutationSelected.name, mutationSelected.type,
                                          0, buffer, sizeValue, o)
                        /\ sizeValue' = o.ret
                        /\ i' = i + 1
                        /\ attempts' = attempts + 1
                        /\ applied' = applied + 1
                        /\ pc' = "loop"
    /\ UNCHANGED << impl, sizeMax, uiHavocIterations, uiIterationsWithErrors, args, asrValue >>

\* The end of the loop: return spanValue.
HavocReturn ==
    /\ pc = "loop"
    /\ impl = "template"
    /\ ~(i < uiHavocIterations)
    /\ pc' = "done"
    /\ UNCHANGED << impl, buffer, sizeMax, sizeValue, uiHavocIterations, i,
                    uiIterationsWithErrors, attempts, applied, last, args, asrValue >>

Next ==
    \/ CAFL_HavocEnter
    \/ CAFL_HavocIterate
    \/ CAFL_HavocReturn
    \/ HavocEnter
    \/ HavocIterate
    \/ HavocReturn

\* One call of Havoc, of either implementation.
Spec == Init /\ [][Next]_vars

\* One call of Havoc that keeps running until it ends: the code is sequential
\* and every operator call returns.
FairSpec == Spec /\ WF_vars(Next)

(***************************************************************************)
(* One operator applied on its own to a value of sizeValue bytes in a      *)
(* buffer of sizeMax bytes.  The function templates are called as their    *)
(* documentation requires: on a value that is not empty, and               *)
(* RandomBlockInsert on a buffer with space left.                          *)
(***************************************************************************)
InitOps ==
    \E im \in {"class", "template"}, cap \in 0..MaxOpCapacity :
      \E b \in Buffers(cap, OpBytes), size \in 0..cap :
        /\ impl = im
        /\ buffer = b
        /\ sizeMax = cap
        /\ sizeValue = size
        /\ pc = "operator"
        /\ uiHavocIterations = 0
        /\ i = 0
        /\ uiIterationsWithErrors = 0
        /\ attempts = 0
        /\ applied = 0
        /\ last = NoCall(b, size)
        /\ args = [buf |-> b, size |-> size]
        /\ asrValue = NoReference

\* The call of operator `name` with the outcomes `outcomes`.
Apply(name, type, w, outcomes) ==
    \E o \in outcomes :
      /\ buffer' = o.buf
      /\ sizeValue' = IF o.ret = MUTATION_FAILED THEN sizeValue ELSE o.ret
      /\ last' = Called(name, type, w, buffer, sizeValue, o)
      /\ pc' = "applied"
      /\ UNCHANGED << impl, sizeMax, uiHavocIterations, i, uiIterationsWithErrors,
                      attempts, applied, args, asrValue >>

\* The MutationType the constructor of Details::Mutation gives an operator.
TypeOf(name) ==
    IF name = "RemoveRandomBlock" THEN "Reducing"
    ELSE IF name = "RandomBlockInsert" THEN "Increasing"
    ELSE "Constant"

Call_FlipBit ==
    /\ pc = "operator" /\ impl = "template" /\ sizeValue > 0
    /\ Apply("FlipBit", TypeOf("FlipBit"), 0,
             FlipBit(buffer, sizeValue, OpGenerator))

Call_InterestingValue ==
    /\ pc = "operator" /\ impl = "template" /\ sizeValue > 0
    /\ Apply("InterestingValue", TypeOf("InterestingValue"), 0,
             InterestingValue(buffer, sizeValue, OpGenerator))

Call_Arithmetic ==
    /\ pc = "operator" /\ impl = "template" /\ sizeValue > 0
    /\ \E plus \in BOOLEAN :
         Apply(IF plus THEN "ArithmeticPlus" ELSE "ArithmeticMinus",
               TypeOf("Arithmetic"), 0,
               Arithmetic(buffer, sizeValue, plus, OpGenerator))

Call_RandomByteReplace ==
    /\ pc = "operator" /\ impl = "template" /\ sizeValue > 0
    /\ Apply("RandomByteReplace", TypeOf("RandomByteReplace"), 0,
             RandomByteReplace(buffer, sizeValue, OpGenerator))

Call_RemoveRandomBlock ==
    /\ pc = "operator" /\ impl = "template" /\ sizeValue > 0
    /\ Apply("RemoveRandomBlock", TypeOf("RemoveRandomBlock"), 0,
             RemoveRandomBlock(buffer, sizeValue, OpGenerator))

Call_RandomBlockInsert ==
    /\ pc = "operator" /\ impl = "template" /\ sizeValue < sizeMax
    /\ Apply("RandomBlockInsert", TypeOf("RandomBlockInsert"), 0,
             RandomBlockInsert(buffer, sizeValue, OpGenerator))

Call_RandomChunkOverwrite ==
    /\ pc = "operator" /\ impl = "template" /\ sizeValue > 0
    /\ Apply("RandomChunkOverwrite", TypeOf("RandomChunkOverwrite"), 0,
             RandomChunkOverwrite(buffer, sizeValue, OpGenerator))

\* sizeof( T ) of the types uint8_t, uint16_t, uint32_t and uint64_t the class
\* instantiates its operators with.
Widths == {1, 2, 4, 8}

Call_CAFL_FlipBit ==
    /\ pc = "operator" /\ impl = "class"
    /\ \E w \in {1} :
         Apply("FlipBit", "class", w,
               CAFL_Invoke(MutationFunction("FlipBit", w), buffer, sizeValue, sizeMax,
                           OpGenerator))

Call_CAFL_InterestingValue ==
    /\ pc = "operator" /\ impl = "class"
    /\ \E w \in Widths :
         Apply("InterestingValue", "class", w,
               CAFL_Invoke(MutationFunction("InterestingValue", w), buffer, sizeValue, sizeMax,
                           OpGenerator))

Call_CAFL_ArithmeticAdd ==
    /\ pc = "operator" /\ impl = "class"
    /\ \E w \in Widths :
         Apply("ArithmeticAdd", "class", w,
               CAFL_Invoke(MutationFunction("ArithmeticAdd", w), buffer, sizeValue, sizeMax,
                           OpGenerator))

Call_CAFL_ArithmeticSubstract ==
    /\ pc = "operator" /\ impl = "class"
    /\ \E w \in Widths :
         Apply("ArithmeticSubstract", "class", w,
               CAFL_Invoke(MutationFunction("ArithmeticSubstract", w), buffer, sizeValue, sizeMax,
                           OpGenerator))

Call_CAFL_RandomByteReplace ==
    /\ pc = "operator" /\ impl = "class"
    /\ \E w \in {1} :
         Apply("RandomByteReplace", "class", w,
               CAFL_Invoke(MutationFunction("RandomByteReplace", w), buffer, sizeValue, sizeMax,
                           OpGenerator))

Call_CAFL_RemoveRandomBlock ==
    /\ pc = "operator" /\ impl = "class"
    /\ \E w \in {1} :
         Apply("RemoveRandomBlock", "class", w,
               CAFL_Invoke(MutationFunction("RemoveRandomBlock", w), buffer, sizeValue, sizeMax,
                           OpGenerator))

Call_CAFL_RandomBlockInsert ==
    /\ pc = "operator" /\ impl = "class"
    /\ \E w \in {1} :
         Apply("RandomBlockInsert", "class", w,
               CAFL_Invoke(MutationFunction("RandomBlockInsert", w), buffer, sizeValue, sizeMax,
                           OpGenerator))

Call_CAFL_RandomChunkOverwrite ==
    /\ pc = "operator" /\ impl = "class"
    /\ \E w \in {1} :
         Apply("RandomChunkOverwrite", "class", w,
               CAFL_Invoke(MutationFunction("RandomChunkOverwrite", w), buffer, sizeValue, sizeMax,
                           OpGenerator))

NextOps ==
    \/ Call_FlipBit
    \/ Call_InterestingValue
    \/ Call_Arithmetic
    \/ Call_RandomByteReplace
    \/ Call_RemoveRandomBlock
    \/ Call_RandomBlockInsert
    \/ Call_RandomChunkOverwrite
    \/ Call_CAFL_FlipBit
    \/ Call_CAFL_InterestingValue
    \/ Call_CAFL_ArithmeticAdd
    \/ Call_CAFL_ArithmeticSubstract
    \/ Call_CAFL_RandomByteReplace
    \/ Call_CAFL_RemoveRandomBlock
    \/ Call_CAFL_RandomBlockInsert
    \/ Call_CAFL_RandomChunkOverwrite

\* One operator call, of either implementation.
SpecOps == InitOps /\ [][NextOps]_vars

(***************************************************************************)
(* The functions of Details.hh called on their own: the state holds the    *)
(* call in args and, once the function has returned, its result in last.   *)
(***************************************************************************)
\* The MutationType values.
MutationTypes == {"Constant", "Reducing", "Increasing"}

\* The operator sets given to FilterMutations: the catalog of
\* GetMutationFunctions and every sequence of at most MaxMutations operators
\* of the test class MockSizeModifying.
MutationSets ==
    {GetMutationFunctions} \cup
    UNION { [1..n -> {Mutation("MockSizeModifying", t) : t \in MutationTypes}]
            : n \in 0..MaxMutations }

\* The calls.
FunctionCalls ==
    {[fn |-> "GetInteresting"]}
    \cup {[fn |-> "MaxIntWithSize", ui8Width |-> w] : w \in 0..255}
    \cup {[fn |-> "possible", ui8ValueSize |-> w] : w \in 1..8}
    \cup {[fn |-> "FilterMutations", mutations |-> m, sizeBuffer |-> c, sizeValue |-> n]
           : m \in MutationSets, c \in 0..MaxFilterSize, n \in 0..MaxFilterSize}

InitFunctions ==
    \E call \in FunctionCalls :
      /\ impl = "template"
      /\ buffer = << >>
      /\ sizeMax = 0
      /\ sizeValue = 0
      /\ pc = "function"
      /\ uiHavocIterations = 0
      /\ i = 0
      /\ uiIterationsWithErrors = 0
      /\ attempts = 0
      /\ applied = 0
      /\ last = [fn |-> "none"]
      /\ args = call
      /\ asrValue = NoReference

\* The function of the call returns `result`.
Return(result) ==
    /\ last' = [fn |-> args.fn, result |-> result]
    /\ pc' = "returned"
    /\ UNCHANGED << impl, buffer, sizeMax, sizeValue, uiHavocIterations, i,
                    uiIterationsWithErrors, attempts, applied, args, asrValue >>

Call_GetInteresting ==
    /\ pc = "function"
    /\ args.fn = "GetInteresting"
    /\ Return(GetInteresting)

Call_MaxIntWithSize ==
    /\ pc = "function"
    /\ args.fn = "MaxIntWithSize"
    /\ Return(MaxIntWithSize(args.ui8Width))

Call_possible ==
    /\ pc = "function"
    /\ args.fn = "possible"
    /\ Return(possible(args.ui8ValueSize))

Call_FilterMutations ==
    /\ pc = "function"
    /\ args.fn = "FilterMutations"
    /\ Return(FilterMutations(args.mutations, args.sizeBuffer, args.sizeValue))

NextFunctions ==
    \/ Call_GetInteresting
    \/ Call_MaxIntWithSize
    \/ Call_possible
    \/ Call_FilterMutations

\* One call of a function of Details.hh.
SpecFunctions == InitFunctions /\ [][NextFunctions]_vars

(***************************************************************************)
(* A CAlignmentSafeReference on its own: the caller constructs one on a    *)
(* buffer and then calls Get and Set.  args holds the buffer at the        *)
(* construction and the value of the last Set (<< >> before any), last the *)
(* last call.                                                              *)
(***************************************************************************)
InitAccessor ==
    \E cap \in 1..MaxOpCapacity :
      \E b \in Buffers(cap, OpBytes) :
        /\ impl = "template"
        /\ buffer = b
        /\ sizeMax = cap
        /\ sizeValue = cap
        /\ pc = "accessor"
        /\ uiHavocIterations = 0
        /\ i = 0
        /\ uiIterationsWithErrors = 0
        /\ attempts = 0
        /\ applied = 0
        /\ last = [fn |-> "none"]
        /\ args = [buf |-> b, value |-> << >>]
        /\ asrValue = NoReference

\* CAlignmentSafeReference< T > asrValue( pData ), for T of w bytes that lie
\* in the buffer.
Call_CAlignmentSafeReference ==
    /\ pc = "accessor"
    /\ \E w \in Widths :
         \E pData \in 0..(sizeMax - w) :
           asrValue' = CAlignmentSafeReference(buffer, pData, w)
    /\ last' = [fn |-> "CAlignmentSafeReference"]
    /\ pc' = "referenced"
    /\ UNCHANGED << impl, buffer, sizeMax, sizeValue, uiHavocIterations, i,
                    uiIterationsWithErrors, attempts, applied, args >>

\* asrValue.Get().
Call_Get ==
    /\ pc = "referenced"
    /\ last' = [fn |-> "Get", result |-> Get(asrValue)]
    /\ UNCHANGED << impl, buffer, sizeMax, sizeValue, pc, uiHavocIterations, i,
                    uiIterationsWithErrors, attempts, applied, args, asrValue >>

\* asrValue.Set( value ).
Call_Set ==
    /\ pc = "referenced"
    /\ \E value \in [1..Len(asrValue.m_Value) -> OpGenerator.bytes0] :
         /\ asrValue' = Set(asrValue, buffer, value).asr
         /\ buffer' = Set(asrValue, buffer, value).buf
         /\ last' = [fn |-> "Set", value |-> value, buf0 |-> buffer]
         /\ args' = [args EXCEPT !.value = value]
    /\ UNCHANGED << impl, sizeMax, sizeValue, pc, uiHavocIterations, i,
                    uiIterationsWithErrors, attempts, applied >>

NextAccessor ==
    \/ Call_CAlignmentSafeReference
    \/ Call_Get
    \/ Call_Set

\* The calls on one CAlignmentSafeReference.
SpecAccessor == InitAccessor /\ [][NextAccessor]_vars

(***************************************************************************)
(* One operator applied on its own to a buffer of DistinctCapacity bytes   *)
(* that all differ, full or with one byte of space left: a byte found      *)
(* after the call tells where it was before it.                            *)
(***************************************************************************)
InitDistinct ==
    \E im \in {"class", "template"}, size \in {DistinctCapacity - 1, DistinctCapacity} :
      LET b == [k \in 0..(DistinctCapacity - 1) |-> k + 1]
      IN  /\ impl = im
          /\ buffer = b
          /\ sizeMax = DistinctCapacity
          /\ sizeValue = size
          /\ pc = "operator"
          /\ uiHavocIterations = 0
          /\ i = 0
          /\ uiIterationsWithErrors = 0
          /\ attempts = 0
          /\ applied = 0
          /\ last = NoCall(b, size)
          /\ args = [buf |-> b, size |-> size]
          /\ asrValue = NoReference

\* One operator call on the buffer of bytes that all differ.
SpecDistinct == InitDistinct /\ [][NextOps]_vars

(***************************************************************************)
(* The operators applied to the 64-bit integer of value 1, as the test     *)
(* TestFunctionsDoMutate applies them: to all its 8 bytes, or to its first *)
(* 6 bytes when the operator is to grow the value.                         *)
(***************************************************************************)
\* uint64_t ui64OriginalValue.
ui64OriginalValue == FromNat(1, 8)

InitTest ==
    \E im \in {"class", "template"}, size \in {6, 8} :
      LET spanBytes == [k \in 0..(Len(ui64OriginalValue) - 1) |-> ui64OriginalValue[k + 1]]
      IN  /\ impl = im
          /\ buffer = spanBytes
          /\ sizeMax = Len(ui64OriginalValue)
          /\ sizeValue = size
          /\ pc = "operator"
          /\ uiHavocIterations = 0
          /\ i = 0
          /\ uiIterationsWithErrors = 0
          /\ attempts = 0
          /\ applied = 0
          /\ last = NoCall(spanBytes, size)
          /\ args = [buf |-> spanBytes, size |-> size]
          /\ asrValue = NoReference

\* One operator call on the integer of the test.
SpecTest == InitTest /\ [][NextOps]_vars

(***************************************************************************)
(* Properties.                                                             *)
(***************************************************************************)
\* The values of a sequence.
Entries(s) == {s[k] : k \in DOMAIN s}
\* The 64-bit integer with the bytes of value and zeros above them.
ZeroExtended(value) == value \o Repeat(0, 8 - Len(value))
\* The operators whose declared category is size-preserving.
SizePreserving ==
    {"FlipBit", "InterestingValue", "ArithmeticPlus", "ArithmeticMinus",
     "ArithmeticAdd", "ArithmeticSubstract", "RandomByteReplace",
     "RandomChunkOverwrite"}

\* The states in which a call of Havoc has ended with a returned size or with
\* an exception.
Ended == pc \in {"done", "invalid_argument", "hung", "out_of_range"}

\* C1: in a Havoc run on a buffer of capacity >= 1 called with a size <=
\* capacity, the size of the value is within 0..capacity before and after
\* every operator call and at the return, and every byte index an operator
\* call wrote is within [0, capacity).
BoundsInvariant ==
    (sizeMax >= 1 /\ args.size <= sizeMax) =>
        /\ 0 <= sizeValue
        /\ sizeValue <= sizeMax
        /\ last.wr \subseteq 0..(sizeMax - 1)

\* A run that returned after an insertion that filled the buffer to its last
\* byte.
BoundsWitness ==
    /\ pc = "done"
    /\ sizeMax >= 1
    /\ args.size <= sizeMax
    /\ last.op = "RandomBlockInsert"
    /\ sizeValue = sizeMax
    /\ (sizeMax - 1) \in last.wr

\* C2: an operator call that does not signal failure returns the size it was
\* given if the operator is size-preserving, a smaller size if it is
\* RemoveRandomBlock, and a larger size that is at most the capacity if it is
\* RandomBlockInsert.
CategoryFidelity ==
    (pc = "applied" /\ last.ret # MUTATION_FAILED) =>
        /\ last.op \in SizePreserving => last.ret = last.size0
        /\ last.op = "RemoveRandomBlock" => last.ret < last.size0
        /\ last.op = "RandomBlockInsert" =>
              (last.size0 < last.ret /\ last.ret <= sizeMax)
        /\ last.type = "Constant" => last.ret = last.size0
        /\ last.type = "Reducing" => last.ret < last.size0
        /\ last.type = "Increasing" =>
              (last.size0 < last.ret /\ last.ret <= sizeMax)

\* A removal that shortened the value.
CategoryWitness ==
    /\ pc = "applied"
    /\ last.op = "RemoveRandomBlock"
    /\ last.ret # MUTATION_FAILED
    /\ last.ret < last.size0
    /\ last.buf # last.buf0

\* C3: every call of Havoc, whatever the buffer, the size, the capacity and
\* the draws, eventually ends with a returned size or with an exception.
HavocTerminates == <>Ended

\* C4: a call of Havoc with capacity 0 and size 0 that has left the entry and
\* the loop has ended with the invalid-argument exception, without having
\* called any operator.
EmptyBufferRejected ==
    (sizeMax = 0 /\ args.size = 0 /\ pc \notin {"call", "loop"}) =>
        (pc = "invalid_argument" /\ attempts = 0 /\ uiHavocIterations = 0)

AttemptsAtMostSum == attempts <= uiHavocIterations + MAX_FAILED_MUTATIONS

\* C7 amended: the failures are counted in a row and a success resets the
\* count, so a Havoc run of the class with the iteration count N makes at most
\* N * MAX_FAILED_MUTATIONS operator calls; a run of the function templates, in
\* which no call fails, makes at most N.
AttemptsAtMostProduct ==
    /\ impl = "class" => attempts <= uiHavocIterations * MAX_FAILED_MUTATIONS
    /\ impl = "template" => attempts <= uiHavocIterations
    /\ uiIterationsWithErrors <= MAX_FAILED_MUTATIONS
    /\ attempts <= applied * MAX_FAILED_MUTATIONS + uiIterationsWithErrors

\* A run of the class that made N * MAX_FAILED_MUTATIONS calls, more than
\* N + MAX_FAILED_MUTATIONS.
AttemptsWitness ==
    /\ impl = "class"
    /\ Ended
    /\ attempts = uiHavocIterations * MAX_FAILED_MUTATIONS
    /\ attempts > uiHavocIterations + MAX_FAILED_MUTATIONS

\* C8: a call of Havoc that returned has made exactly N operator calls that
\* did not fail, N being the iteration count drawn at the entry, with
\* 1 <= N <= 32; the failed calls are not among the N counted by the loop.
ReturnedAfterNSuccesses ==
    /\ i = applied
    /\ applied <= uiHavocIterations
    /\ pc = "done" =>
          /\ applied = uiHavocIterations
          /\ 1 <= uiHavocIterations
          /\ uiHavocIterations <= 32
          /\ 2 ^ maxPower - 1 <= 32

\* A run that returned although some of its operator calls failed.
ReturnedWitness ==
    /\ pc = "done"
    /\ attempts > applied
    /\ applied = uiHavocIterations
    /\ uiHavocIterations > 1

\* C9: after a call of RemoveRandomBlock on a value of size > 1 bytes that
\* returned newSize (a removal that left at least one byte, as the operator
\* is specified), every byte at an index in [newSize, size) is zero.
RemovalZeroFill ==
    (pc = "applied" /\ last.op = "RemoveRandomBlock" /\ last.size0 > 1
     /\ last.ret # MUTATION_FAILED /\ last.ret >= 1) =>
        \A k \in last.ret..(last.size0 - 1) : buffer[k] = 0

\* C10: a call of RemoveRandomBlock on a value of size > 1 removes between 1
\* and size - 1 bytes and returns size less the number of bytes removed, which
\* is at least 1.
RemovalKeepsOneByte ==
    (pc = "applied" /\ last.op = "RemoveRandomBlock" /\ last.size0 > 1) =>
        /\ last.ret = last.size0 - last.len
        /\ 1 <= last.len
        /\ last.len <= last.size0 - 1
        /\ last.ret >= 1

\* C11: a call of RandomBlockInsert that inserted L bytes at offset p of a
\* value of `size` bytes returns size + L, leaves the bytes [0, p) as they
\* were, and leaves in [p + L, size + L) the bytes that were in [p, size), also
\* when the old and the new place of the tail overlap.
InsertKeepsHeadAndTail ==
    (pc = "applied" /\ last.op = "RandomBlockInsert" /\ last.ret # MUTATION_FAILED) =>
        /\ last.ret = last.size0 + last.len
        /\ \A k \in 0..(last.pos - 1) : buffer[k] = last.buf0[k]
        /\ \A k \in last.pos..(last.size0 - 1) : buffer[k + last.len] = last.buf0[k]

\* C12: after a call of RandomByteReplace the byte it chose differs from what
\* that byte was before the call.
ReplacedByteDiffers ==
    (pc = "applied" /\ last.op = "RandomByteReplace" /\ last.ret # MUTATION_FAILED) =>
        buffer[last.pos] # last.buf0[last.pos]

\* C20: after a call of RemoveRandomBlock that removed the block [s, e) of a
\* value of `size` bytes, the value returned, of size - (e - s) bytes, is the
\* bytes that were in [0, s) followed by the bytes that were in [e, size).
RemovalKeepsTheRest ==
    (pc = "applied" /\ last.op = "RemoveRandomBlock" /\ last.ret # MUTATION_FAILED) =>
        /\ last.ret = last.size0 - last.len
        /\ \A k \in 0..(last.pos - 1) : buffer[k] = last.buf0[k]
        /\ \A k \in last.pos..(last.ret - 1) : buffer[k] = last.buf0[k + last.len]


\* C13: the catalog GetInteresting returns is strictly ascending as unsigned
\* 64-bit integers: every entry is less than the next one, so that no value
\* occurs twice.
CatalogStrictlyAscending ==
    (pc = "returned" /\ last.fn = "GetInteresting") =>
        \A k \in 1..(Len(last.result) - 1) : Less(last.result[k], last.result[k + 1])
\* GetInteresting has returned a catalog of more than one entry.
CatalogReturned ==
    pc = "returned" /\ last.fn = "GetInteresting" /\ Len(last.result) > 1

\* C14: for every value v of the four generating tables the catalog holds v
\* zero-extended to 64 bits and the byte-reversed v (reversed at v's own
\* width) zero-extended to 64 bits; hence it holds 0, 0xFF, 0xFFFF and
\* 0xFFFFFFFF.
CatalogHasBothEndians ==
    (pc = "returned" /\ last.fn = "GetInteresting") =>
        /\ \A table \in {pInteresting8Bit, pInteresting16Bit,
                         pInteresting32Bit, pInteresting64Bit} :
             \A v \in Entries(table) :
               /\ ZeroExtended(v) \in Entries(last.result)
               /\ ZeroExtended(SwapEndian(v)) \in Entries(last.result)
        /\ {FromNat(0, 8), FromNat(255, 8), FromNat(65535, 8),
            ZeroExtended(UIntMax(4))} \subseteq Entries(last.result)
\* GetInteresting has returned a catalog that holds the byte-reversed version
\* of a value that differs from its reversal.
CatalogHoldsSwapped ==
    /\ pc = "returned" /\ last.fn = "GetInteresting"
    /\ \E v \in Entries(pInteresting16Bit) :
         /\ SwapEndian(v) # v
         /\ ZeroExtended(SwapEndian(v)) \in Entries(last.result)

\* C15: for a value size of w bytes (1, 2, 4 or 8) the candidates of
\* InterestingValue are exactly the catalog entries that are at most
\* 2^(8w) - 1, the largest unsigned value of w bytes, and they are a prefix of
\* the catalog.
CandidatesFitTheWidth ==
    (pc = "returned" /\ last.fn = "possible" /\ args.ui8ValueSize \in {1, 2, 4, 8}) =>
        /\ last.result = SubSeq(GetInterestingArray, 1, Len(last.result))
        /\ Entries(last.result) =
             {e \in Entries(GetInterestingArray) :
                LessEq(e, ZeroExtended(UIntMax(args.ui8ValueSize)))}

\* C17: FilterMutations returns, in their order, exactly the operators m with
\* (size # 0 or m increasing) and (size <= capacity or m reducing) and
\* (capacity > size or m not increasing); hence size = capacity leaves no
\* increasing operator, size = 0 leaves only increasing ones and
\* size > capacity leaves only reducing ones.
FilterKeepsExactlyTheFitting ==
    (pc = "returned" /\ last.fn = "FilterMutations") =>
        LET capacity == args.sizeBuffer
            size == args.sizeValue
            Fits(m) == /\ (size # 0 \/ IsIncreasing(m))
                       /\ (size <= capacity \/ IsReducing(m))
                       /\ (capacity > size \/ ~IsIncreasing(m))
        IN  /\ last.result = SelectSeq(args.mutations, Fits)
            /\ size = capacity => \A m \in Entries(last.result) : ~IsIncreasing(m)
            /\ size = 0 => \A m \in Entries(last.result) : IsIncreasing(m)
            /\ size > capacity => \A m \in Entries(last.result) : IsReducing(m)
\* FilterMutations has returned some but not all of the operators of a set
\* that holds an increasing operator, for a full buffer.
FilterDroppedIncreasing ==
    /\ pc = "returned" /\ last.fn = "FilterMutations"
    /\ args.sizeValue = args.sizeBuffer /\ args.sizeValue > 0
    /\ \E m \in Entries(args.mutations) : IsIncreasing(m)
    /\ last.result # << >>
    /\ Len(last.result) < Len(args.mutations)

\* C16: at width 8 (a buffer of size and capacity 8) every entry of the
\* catalog is reachable: for each entry e some draws of InterestingValue
\* leave the 8 bytes of the buffer equal to e.
EveryEntryReachable ==
    (pc = "operator" /\ sizeValue = 8 /\ sizeMax = 8) =>
        IF impl = "template"
        THEN \A e \in Entries(GetInterestingArray) :
               \E o \in InterestingValue(buffer, sizeValue, OpGenerator) :
                 ReadAt(o.buf, 0, 8) = e
        ELSE \A e \in Entries(m_vecInterestingInts) :
               \E o \in CAFL_InterestingValue(8, buffer, sizeValue, OpGenerator) :
                 ReadAt(o.buf, 0, 8) = e

\* C18: no operator of GetMutationFunctions is an unconditional no-op: applied
\* to the 8 bytes of the integer 1 (with size 8, or size 6 for an increasing
\* operator) some draws change the 8 bytes.
EveryOperatorCanMutate ==
    (pc = "operator" /\ impl = "template" /\ sizeMax = 8) =>
        \A k \in DOMAIN GetMutationFunctions :
          LET mutation == GetMutationFunctions[k]
              size == IF IsIncreasing(mutation) THEN 6 ELSE 8
          IN  \E o \in Invoke(mutation, buffer, size, OpGenerator) : o.buf # buffer
\* An operator of the templates has changed the 8 bytes of the integer 1.
OperatorMutated ==
    /\ pc = "applied" /\ impl = "template" /\ sizeMax = 8
    /\ last.buf0 = [k \in 0..7 |-> ui64OriginalValue[k + 1]]
    /\ last.op = "RemoveRandomBlock"
    /\ buffer # last.buf0

\* C19: for a reference of width W constructed at offset o of the buffer, Get
\* returns the W bytes that were at [o, o + W) at the construction; after
\* Set(v), Get returns v, the bytes [o, o + W) of the buffer are those of v (a
\* reference newly constructed at o reads v) and no byte outside [o, o + W) is
\* changed.
AccessorRoundTrip ==
    pc = "referenced" =>
        LET o == asrValue.m_pData
            W == Len(asrValue.m_Value)
        IN  /\ (last.fn = "Get" /\ args.value = << >>) =>
                 last.result = ReadAt(args.buf, o, W)
            /\ (last.fn = "Get" /\ args.value # << >>) =>
                 last.result = args.value
            /\ last.fn = "Set" =>
                 /\ Get(asrValue) = last.value
                 /\ ReadAt(buffer, o, W) = last.value
                 /\ Get(CAlignmentSafeReference(buffer, o, W)) = last.value
                 /\ \A k \in DOMAIN buffer \ Span(o, W) : buffer[k] = last.buf0[k]
\* Get has returned the value of a Set that changed the bytes of a reference
\* at an offset other than 0 in a buffer with bytes outside the reference.
AccessorSetThenGet ==
    /\ pc = "referenced"
    /\ last.fn = "Get" /\ args.value # << >>
    /\ asrValue.m_pData > 0
    /\ Len(asrValue.m_Value) > 1
    /\ buffer # args.buf

\* C21: in every run of Havoc no operator is called against its
\* precondition: a size-preserving operator is called only with size > 0 and
\* with a width that is at most the size, RemoveRandomBlock only with
\* size > 1 and RandomBlockInsert only with capacity > size.
FilterPreventsViolations ==
    (pc \in {"loop", "done", "hung"} /\ attempts > 0) =>
        /\ last.op \notin {"RemoveRandomBlock", "RandomBlockInsert"} =>
             (last.size0 > 0 /\ last.w <= last.size0 /\ last.len <= last.size0)
        /\ last.op = "RemoveRandomBlock" => last.size0 > 1
        /\ last.op = "RandomBlockInsert" => sizeMax > last.size0

\* C22: Havoc throws because of too many failed mutations only when no
\* operator it may select for the current size and capacity can succeed.
HungOnlyWhenNothingCanSucceed ==
    pc = "hung" =>
        LET vcmfPossibleMutations == PossibleMutations(sizeValue, sizeMax)
        IN  \A sizePosition \in 0..(VectorConcatenation_Size(vcmfPossibleMutations) - 1) :
              \A o \in CAFL_Invoke(VectorConcatenation_At(vcmfPossibleMutations, sizePosition),
                                   buffer, sizeValue, sizeMax, OpGenerator) :
                o.ret = MUTATION_FAILED

\* C23: an operator that returns MUTATION_FAILED has modified no byte of the
\* buffer, and Havoc goes on with the size it had before the failed call:
\* MUTATION_FAILED never is the size of the value, nor the size returned.
FailureChangesNothing ==
    /\ sizeValue # MUTATION_FAILED
    /\ (attempts > 0 /\ last.ret = MUTATION_FAILED) =>
          /\ last.buf = last.buf0
          /\ buffer = last.buf0
          /\ sizeValue = last.size0
    /\ pc = "done" => sizeValue >= 0
\* Havoc goes on after a failed call on a buffer that earlier calls have
\* changed.
FailureAfterSuccess ==
    /\ pc = "loop" /\ impl = "class"
    /\ last.ret = MUTATION_FAILED
    /\ applied > 0
    /\ buffer # args.buf
    /\ sizeValue > 0

\* C24: InterestingValue on a value of size > 0 overwrites exactly one
\* window: for some width w with 1 <= w <= min(8, size), some offset o with
\* o + w <= size and some entry e of the catalog, the bytes [o, o + w) are the
\* w low-order bytes of e after the call and every byte outside [o, o + w) is
\* as it was.
InterestingOverwritesOneWindow ==
    (pc = "applied" /\ last.op = "InterestingValue" /\ last.size0 > 0
       /\ last.ret # MUTATION_FAILED) =>
        \E w \in 1..Min(8, last.size0) :
          \E o \in 0..(last.size0 - w) :
            /\ \E e \in Entries(IF impl = "template" THEN GetInterestingArray
                                ELSE m_vecInterestingInts) :
                 ReadAt(buffer, o, w) = SubSeq(e, 1, w)
            /\ \A k \in DOMAIN buffer \ Span(o, w) : buffer[k] = last.buf0[k]
\* InterestingValue of the templates has written a window of more than one
\* byte that does not start at 0 and has changed the value.
InterestingWindowWritten ==
    /\ pc = "applied" /\ last.op = "InterestingValue" /\ impl = "template"
    /\ last.len > 1 /\ last.pos > 0
    /\ buffer # last.buf0

\* C25: the arithmetic operators are modular within their window: for the
\* width w, the window [o, o + w) and the delta d drawn, the window read as an
\* unsigned integer of w bytes becomes old + d modulo 2^(8w) for the addition
\* and old - d modulo 2^(8w) for the substraction, no byte outside the window
\* changes, and the opposite operation with the same d on the same window
\* gives the bytes of before the call back.
ArithmeticIsModular ==
    (pc = "applied" /\ last.ret # MUTATION_FAILED
       /\ last.op \in {"ArithmeticPlus", "ArithmeticMinus",
                       "ArithmeticAdd", "ArithmeticSubstract"}) =>
        LET w == last.len
            o == last.pos
            old == ReadAt(last.buf0, o, w)
            new == ReadAt(buffer, o, w)
            plus == last.op \in {"ArithmeticPlus", "ArithmeticAdd"}
            Moved(d) == new = IF plus THEN AddBytes(old, Truncate(w, d))
                              ELSE SubBytes(old, Truncate(w, d))
            Restores(undo) ==
                \E u \in undo : u.pos = o /\ u.len = w /\ u.buf = last.buf0
        IN  /\ 1 <= w /\ w <= Min(8, last.size0) /\ o + w <= last.size0
            /\ \A k \in DOMAIN buffer \ Span(o, w) : buffer[k] = last.buf0[k]
            /\ IF impl = "template"
               THEN \E d \in OpGenerator.uint64 :
                      /\ Moved(d)
                      /\ Restores(Arithmetic(buffer, last.size0, ~plus,
                                             [OpGenerator EXCEPT !.uint64 = {d}]))
               ELSE \E r \in OpGenerator.arithmetic :
                      LET generator == [OpGenerator EXCEPT !.arithmetic = {r}]
                      IN  /\ \E d \in RandomValues(w, generator) : Moved(d)
                          /\ Restores(IF plus
                                      THEN CAFL_ArithmeticSubstract(w, buffer, last.size0,
                                                                    generator)
                                      ELSE CAFL_ArithmeticAdd(w, buffer, last.size0,
                                                              generator))
\* An addition has wrapped around in a window that has bytes after it.
ArithmeticWrapped ==
    /\ pc = "applied" /\ last.op \in {"ArithmeticPlus", "ArithmeticAdd"}
    /\ last.ret # MUTATION_FAILED
    /\ last.pos + last.len < last.size0
    /\ Less(ReadAt(buffer, last.pos, last.len), ReadAt(last.buf0, last.pos, last.len))

\* C26: the fill of RandomChunkOverwrite is safe when the windows overlap:
\* for the block [t, t + L) with 1 <= L <= size, after the call either the
\* block holds what some window [s, s + L) of the value held before the call,
\* also when the two windows overlap, or its L bytes all hold the same byte;
\* the bytes outside the block are as they were.
ChunkIsCloneOrRepeat ==
    (pc = "applied" /\ last.op = "RandomChunkOverwrite" /\ last.ret # MUTATION_FAILED) =>
        LET t == last.pos
            L == last.len
        IN  /\ 1 <= L /\ L <= last.size0 /\ t + L <= last.size0
            /\ \/ \E s \in 0..(last.size0 - L) :
                    ReadAt(buffer, t, L) = ReadAt(last.buf0, s, L)
               \/ \E byte \in 0..255 : ReadAt(buffer, t, L) = Repeat(byte, L)
            /\ \A k \in DOMAIN buffer \ Span(t, L) : buffer[k] = last.buf0[k]
\* RandomChunkOverwrite has cloned a window that overlaps the block and lies
\* more than one byte before it.
ChunkClonedOverlapping ==
    /\ pc = "applied" /\ last.op = "RandomChunkOverwrite"
    /\ last.ret # MUTATION_FAILED
    /\ last.len > 2
    /\ last.pos >= 2
    /\ ReadAt(buffer, last.pos, last.len) = ReadAt(last.buf0, last.pos - 2, last.len)
    /\ buffer # last.buf0

\* C27: the frame of every operator: an operator applied to a value of `size`
\* bytes that returns newSize leaves every byte of the buffer at an index of
\* at least max(size, newSize) as it was; a size-preserving operator writes
\* within [0, size) only and leaves the bytes [size, capacity) alone.
OperatorFrame ==
    (pc = "applied" /\ last.ret # MUTATION_FAILED) =>
        LET size == last.size0
            newSize == last.ret
            top == IF size > newSize THEN size ELSE newSize
        IN  /\ \A k \in top..(sizeMax - 1) : buffer[k] = last.buf0[k]
            /\ newSize = size => \A k \in last.wr : k < size
\* An operator has changed the value and left bytes of the buffer above it.
OperatorLeftScratch ==
    /\ pc = "applied" /\ last.ret # MUTATION_FAILED
    /\ last.op = "RandomBlockInsert"
    /\ last.ret < sizeMax
    /\ buffer # last.buf0
    /\ \E k \in last.ret..(sizeMax - 1) : last.buf0[k] # 0

\* C28: the operators Havoc selects from are never none during a run: for
\* every capacity >= 1 and every size given that is at most the capacity, at
\* every iteration, whatever operators were applied before, the filtered set
\* holds an operator, so that the draw of the operator is made in a range
\* that is not empty.
EligibleSetNeverEmpty ==
    (sizeMax >= 1 /\ args.size <= sizeMax /\ pc \notin {"call"}) =>
        /\ pc \notin {"out_of_range", "undefined"}
        /\ (pc = "loop" /\ i < uiHavocIterations) =>
             IF impl = "template"
             THEN Len(FilterMutations(GetMutationFunctions, sizeMax, sizeValue)) >= 1
             ELSE VectorConcatenation_Size(PossibleMutations(sizeValue, sizeMax)) >= 1
\* Havoc is at an iteration after an operator has left the value empty in a
\* buffer that is not, or has filled the buffer.
EligibleAfterExtremes ==
    /\ pc = "loop" /\ i < uiHavocIterations
    /\ applied > 0
    /\ sizeMax >= 1 /\ args.size <= sizeMax
    /\ sizeValue # args.size
    /\ sizeValue \in {0, sizeMax}
=============================================================================
